---- MODULE Spec2Model ----
(***************************************************************************)
(* Model of gop/core/BufferGeometry.js (class BufferGeometry and its       *)
(* buffer utilities), of gop/core/WebGLProgram.js (setUniform) and of       *)
(* gop/core/ShaderHelper.js (loadShader, createProgram).                   *)
(*                                                                         *)
(* One BufferGeometry object is driven by an arbitrary host through its    *)
(* public methods.  The graphics context is an external object: the model  *)
(* records, per operation, the sequence of calls made on it.  The host of  *)
(* webgl-01.js (main and drawScene) keeps a second geometry and redraws.   *)
(***************************************************************************)
EXTENDS Integers, Sequences, FiniteSets, TLC

\* ------------------------------------------------------------------------
\* Bounds
\* ------------------------------------------------------------------------
MaxOps == 4          \* number of operations on one geometry in one run
MaxWrapperOps == 3   \* number of program constructions and calls in one run
MaxArray == 5        \* longest plain array passed as a uniform value
MaxHelperOps == 3    \* number of direct loadShader / createProgram calls in one run

\* the attribute data a host passes, as <<array length, itemSize>>: 9 floats
\* as 3-vectors and 3 floats as scalars both make 3 elements, 3 floats as a
\* 3-vector make 1; index lists of 0 or 6 entries
AttributeShapes == {<<9, 3>>, <<3, 1>>, <<3, 3>>}
IndexLengths == {0, 6}

\* ------------------------------------------------------------------------
\* Values
\* ------------------------------------------------------------------------
\* graphics contexts a host may pass: two real contexts, a plain object
\* without getParameter, and null
RealContexts == {"glA", "glB"}
Contexts == RealContexts \cup {"fake", "null"}
\* the contexts the host of the geometry passes
GeometryContexts == {"glA", "fake", "null"}

\* buffer handles: the n-th buffer created by a context; two non-handles
UndefBuffer == [ctx |-> "undefined", id |-> 0]
NullBuffer == [ctx |-> "null", id |-> 0]
Handle(ctx, n) == [ctx |-> ctx, id |-> n]

\* an absent (undefined) property is the empty tuple, a present one <<v>>
Unset == <<>>
Some(v) == <<v>>

\* the uniforms of the built-in shader pair (WebGLProgram.js, vs and fs)
UniformNames == {"modelMatrix", "useUniformColor", "color"}

\* what a linked program can declare for each of them; the context may
\* also have optimised a uniform out ("inactive").  color is a vec4 in the
\* built-in fragment shader and a vec3 in the host's own shader.
Declared(n) ==
    CASE n = "modelMatrix" -> {"mat4"}
      [] n = "useUniformColor" -> {"float"}
      [] n = "color" -> {"vec4", "vec3"}
UniformTables == {t \in [UniformNames -> {"inactive", "float", "vec3", "vec4", "mat4"}] :
                    \A n \in UniformNames : t[n] \in Declared(n) \cup {"inactive"}}

ValidNames == {"position", "color", "normal", "uv"}
\* the attribute names the host of the geometry uses: three names of the
\* table (color and normal share a location) and two outside it
HostNames == {"position", "color", "normal", "index", "tangent"}

RECURSIVE GCD(_, _)
GCD(a, b) == IF b = 0 THEN a ELSE GCD(b, a % b)

\* array.length / itemSize as JavaScript computes it: a number that need
\* not be an integer.  Kept as a reduced fraction <<numerator, denominator>>.
Quotient(len, size) ==
    LET g == GCD(len, size) IN <<len \div g, size \div g>>

\* The attribute values a host passes to setAttribute.
\*   kind "undefined": the argument is missing
\*   kind "null":      null
\*   kind "object":    an object whose array (given by its length) and
\*                     itemSize properties may be missing; the hosts
\*                     modelled leave normalize out
AttributeObjects ==
    {[kind |-> "object", array |-> Some(s[1]), itemSize |-> Some(s[2]),
      normalize |-> Unset] : s \in AttributeShapes}
    \cup {[kind |-> "object", array |-> Some(3), itemSize |-> Unset, normalize |-> Unset],
          [kind |-> "object", array |-> Unset, itemSize |-> Some(3), normalize |-> Unset],
          [kind |-> "object", array |-> Unset, itemSize |-> Unset, normalize |-> Unset]}
NoObject(k) == [kind |-> k, array |-> Unset, itemSize |-> Unset, normalize |-> Unset]
AttributeInputs == AttributeObjects \cup {NoObject("undefined"), NoObject("null")}

\* The values a host passes to setIndex: a raw array, a pre-built
\* {array, itemSize} object, null, or nothing
IndexInputs ==
    [kind : {"array", "object"}, array : {Some(n) : n \in IndexLengths}]
    \cup {[kind |-> "null", array |-> Unset], [kind |-> "undefined", array |-> Unset]}

\* ------------------------------------------------------------------------
\* State
\* ------------------------------------------------------------------------
VARIABLES
    attributes,     \* this.attributes, in for-in (insertion) order
    index,          \* this.index
    gl,             \* this.gl
    isInitialized,  \* this.isInitialized
    bufferCount,    \* per real context, the number of buffers it has created
    op,             \* the last operation the host called
    result,         \* how it ended: "ok" or the error it threw
    calls,          \* the graphics-context calls it made, in order
    logs,           \* the console.error / console.warn lines it wrote
    repeated,       \* history: the last operation is an init that directly
                    \* follows an init with the same context
    indexLate,      \* history: this.index was assigned after initialization
    nops            \* operations so far

\* the WebGLProgram wrapper and the context's view of its program
VARIABLES
    constructed,    \* a WebGLProgram object exists
    wgl,            \* its this.gl
    program,        \* its this.program
    uniforms,       \* per uniform name, what the linked program declares
    shaderCount,    \* shader objects created so far
    programCount    \* program objects created so far

\* a host that calls the helpers of ShaderHelper.js itself
VARIABLES
    held,           \* the shader handles loadShader has returned to the host
    returned        \* what the last operation returned

\* a host with more than one geometry, redrawing its scene
VARIABLES
    other,          \* the host's second BufferGeometry object, as its last
                    \* operation left it
    frames,         \* the drawScene calls started so far
    pc              \* where the host's main / drawScene is

gvars == <<attributes, index, gl, isInitialized, bufferCount, indexLate>>
hvars == <<other, frames, pc>>
wvars == <<constructed, wgl, program, uniforms, shaderCount, programCount>>
vars == <<gvars, wvars, hvars, held, op, result, calls, logs, repeated, nops, returned>>

\* ------------------------------------------------------------------------
\* Graphics-context calls
\* ------------------------------------------------------------------------
CreateBufferCall(ctx, h) == [fn |-> "createBuffer", ctx |-> ctx, buffer |-> h]
BindBufferCall(ctx, target, h) ==
    [fn |-> "bindBuffer", ctx |-> ctx, target |-> target, buffer |-> h]
BufferDataCall(ctx, target, type, len) ==
    [fn |-> "bufferData", ctx |-> ctx, target |-> target, type |-> type,
     length |-> len, usage |-> "STATIC_DRAW"]
EnableCall(ctx, loc) == [fn |-> "enableVertexAttribArray", ctx |-> ctx, location |-> loc]
DisableCall(ctx, loc) == [fn |-> "disableVertexAttribArray", ctx |-> ctx, location |-> loc]
PointerCall(ctx, loc, size, normalize) ==
    [fn |-> "vertexAttribPointer", ctx |-> ctx, location |-> loc, size |-> size,
     type |-> "FLOAT", normalize |-> normalize, stride |-> 0, offset |-> 0]
DrawElementsCall(ctx, count) ==
    [fn |-> "drawElements", ctx |-> ctx, mode |-> "TRIANGLES", count |-> count,
     type |-> "UNSIGNED_SHORT", offset |-> 0]
DrawArraysCall(ctx, count) ==
    [fn |-> "drawArrays", ctx |-> ctx, mode |-> "TRIANGLES", first |-> 0, count |-> count]

\* ------------------------------------------------------------------------
\* Utilities of BufferGeometry.js
\* ------------------------------------------------------------------------
\* getAttribLocation giving the name 'index' a location of its own
getAttribLocation_index(name) ==
    CASE name = "position" -> 0
      [] name = "color" -> 1
      [] name = "normal" -> 1
      [] name = "uv" -> 2
      [] name = "index" -> 3
      [] OTHER -> -1

\* location of an attribute name in the shader; -1 stands for undefined
getAttribLocation(name) ==
    CASE name = "position" -> 0
      [] name = "color" -> 1
      [] name = "normal" -> 1
      [] name = "uv" -> 2
      [] name = "index" -> -1
      [] OTHER -> -1

isArrayOrTypedArray(x) == x.kind = "array"

\* createBuffer(gl, arrayData): the calls it makes; it returns handle h
createBuffer(ctx, len, h) ==
    << CreateBufferCall(ctx, h),
       BindBufferCall(ctx, "ARRAY_BUFFER", h),
       BufferDataCall(ctx, "ARRAY_BUFFER", "Float32Array", len) >>

\* createIndex(gl, indices): the calls it makes; it returns handle h
createIndex(ctx, len, h) ==
    << CreateBufferCall(ctx, h),
       BindBufferCall(ctx, "ELEMENT_ARRAY_BUFFER", h),
       BufferDataCall(ctx, "ELEMENT_ARRAY_BUFFER", "Uint16Array", len) >>

\* useBuffer without the bindBuffer(gl.ARRAY_BUFFER, null) of line 199
useBuffer_keepsBound(ctx, buffer, itemSize, location, normalize) ==
    << BindBufferCall(ctx, "ARRAY_BUFFER", buffer),
       EnableCall(ctx, location),
       PointerCall(ctx, location, itemSize, normalize) >>

useBuffer(ctx, buffer, itemSize, location, normalize) ==
    << BindBufferCall(ctx, "ARRAY_BUFFER", buffer),
       EnableCall(ctx, location),
       PointerCall(ctx, location, itemSize, normalize),
       BindBufferCall(ctx, "ARRAY_BUFFER", NullBuffer) >>

\* disableBuffer leaving the slot enabled
disableBuffer_none(ctx, location) == <<>>

disableBuffer(ctx, location) == << DisableCall(ctx, location) >>

RECURSIVE Flatten(_)
Flatten(ss) == IF ss = <<>> THEN <<>> ELSE Head(ss) \o Flatten(Tail(ss))

\* ------------------------------------------------------------------------
\* BufferGeometry
\* ------------------------------------------------------------------------
NullIndex == [kind |-> "null", array |-> Unset, buffer |-> UndefBuffer, count |-> Unset]
UndefinedIndex == [kind |-> "undefined", array |-> Unset, buffer |-> UndefBuffer, count |-> Unset]

hasIndex == index.kind # "null"

AttrNames == {attributes[i].name : i \in DOMAIN attributes}
Position(name) == CHOOSE i \in DOMAIN attributes : attributes[i].name = name

\* values an operation returns: nothing (undefined), a boolean, an
\* attribute entry, a shader or program handle (or null)
NoValue == [kind |-> "undefined"]
NoGeometry == [kind |-> "none"]
This == [kind |-> "this"]
Returns(kind, value) == [kind |-> kind, value |-> value]

Init ==
    /\ attributes = <<>>
    /\ index = NullIndex
    /\ gl = "null"
    /\ isInitialized = FALSE
    /\ bufferCount = [c \in RealContexts |-> 0]
    /\ op = [name |-> "constructor", ctx |-> "-", key |-> "-", arg |-> "-", val |-> <<>>]
    /\ result = "ok"
    /\ calls = <<>>
    /\ logs = <<>>
    /\ repeated = FALSE
    /\ indexLate = FALSE
    /\ nops = 0
    /\ constructed = FALSE
    /\ wgl = "null"
    /\ program = NullBuffer
    /\ uniforms = [n \in UniformNames |-> "inactive"]
    /\ shaderCount = 0
    /\ programCount = 0
    /\ held = {}
    /\ returned = NoValue
    /\ other = NoGeometry
    /\ frames = 0
    /\ pc = "main"

\* bookkeeping common to every host operation
Called(name, ctx, key, arg, val) ==
    /\ nops' = nops + 1
    /\ op' = [name |-> name, ctx |-> ctx, key |-> key, arg |-> arg, val |-> val]
    /\ repeated' = (name = "init" /\ op.name = "init" /\ op.ctx = ctx)

\* an operation of the BufferGeometry object
GeometryCall(name, ctx, key, arg) ==
    /\ nops < MaxOps
    /\ Called(name, ctx, key, arg, <<>>)
    /\ UNCHANGED <<wvars, hvars, held>>

Log(level, what, key) == [level |-> level, what |-> what, key |-> key]

\* init(_gl), lines 41-46: every attribute, in for-in order, gets a new
\* buffer and its count
Uploaded(ctx) ==
    [i \in DOMAIN attributes |->
        [attributes[i] EXCEPT
            !.buffer = Handle(ctx, bufferCount[ctx] + i),
            !.count = Some(Quotient(attributes[i].array, attributes[i].itemSize))]]

UploadCalls(ctx) ==
    Flatten([i \in DOMAIN attributes |->
        createBuffer(ctx, attributes[i].array, Handle(ctx, bufferCount[ctx] + i))])

\* attrCount after the first loop: the count of the last attribute, 0 if none
LastCount(atts) == IF atts = <<>> THEN <<0, 1>> ELSE atts[Len(atts)].count[1]

\* the attributes the check of lines 50-56 rejects
Mismatched(atts) == {i \in DOMAIN atts : atts[i].count[1] # LastCount(atts)}
FirstOf(S) == CHOOSE i \in S : \A j \in S : i <= j

\* an operation that returns at once: nothing changes, nothing is called
Same == [result |-> "ok", attributes |-> attributes, index |-> index,
         gl |-> gl, isInitialized |-> isInitialized,
         bufferCount |-> bufferCount, calls |-> <<>>, logs |-> <<>>]

\* init setting the flag before the count check of lines 50-56
initBody_flagFirst(ctx) ==
    LET same == Same
        n == Len(attributes)
        atts == Uploaded(ctx)
        partial == [same EXCEPT
                      !.attributes = atts,
                      !.gl = ctx,
                      !.bufferCount = [bufferCount EXCEPT ![ctx] = @ + n],
                      !.calls = UploadCalls(ctx)]
        h == Handle(ctx, bufferCount[ctx] + n + 1)
    IN  IF ctx = "null" THEN [same EXCEPT !.result = "TypeError"]
        ELSE IF ctx \notin RealContexts THEN
            [same EXCEPT !.result = "InvalidContext",
                         !.logs = <<Log("error", "context not valid", "-")>>]
        ELSE IF Mismatched(atts) # {} THEN
            [partial EXCEPT
                !.result = "InconsistentAttributeCount",
                !.isInitialized = TRUE,
                !.logs = <<Log("error", "different count",
                               atts[FirstOf(Mismatched(atts))].name)>>]
        ELSE IF index.kind = "undefined" THEN
            [partial EXCEPT !.result = "TypeError"]
        ELSE IF hasIndex THEN
            [partial EXCEPT
                !.index = [index EXCEPT !.buffer = h, !.count = Some(index.array[1])],
                !.bufferCount = [bufferCount EXCEPT ![ctx] = @ + n + 1],
                !.calls = UploadCalls(ctx) \o createIndex(ctx, index.array[1], h),
                !.isInitialized = TRUE]
        ELSE [partial EXCEPT !.isInitialized = TRUE]

\* init(_gl), lines 29-62: the outcome of a first initialization
initBody(ctx) ==
    LET same == Same
        n == Len(attributes)
        atts == Uploaded(ctx)
        partial == [same EXCEPT
                      !.attributes = atts,
                      !.gl = ctx,
                      !.bufferCount = [bufferCount EXCEPT ![ctx] = @ + n],
                      !.calls = UploadCalls(ctx)]
        h == Handle(ctx, bufferCount[ctx] + n + 1)
    IN  IF ctx = "null" THEN [same EXCEPT !.result = "TypeError"]
        ELSE IF ctx \notin RealContexts THEN
            [same EXCEPT !.result = "InvalidContext",
                         !.logs = <<Log("error", "context not valid", "-")>>]
        ELSE IF Mismatched(atts) # {} THEN
            [partial EXCEPT
                !.result = "InconsistentAttributeCount",
                !.logs = <<Log("error", "different count",
                               atts[FirstOf(Mismatched(atts))].name)>>]
        ELSE IF index.kind = "undefined" THEN
            [partial EXCEPT !.result = "TypeError"]
        ELSE IF hasIndex THEN
            [partial EXCEPT
                !.index = [index EXCEPT !.buffer = h, !.count = Some(index.array[1])],
                !.bufferCount = [bufferCount EXCEPT ![ctx] = @ + n + 1],
                !.calls = UploadCalls(ctx) \o createIndex(ctx, index.array[1], h),
                !.isInitialized = TRUE]
        ELSE [partial EXCEPT !.isInitialized = TRUE]

\* init without the isInitialized test of line 27
init_everyTime(ctx) == initBody(ctx)

\* init clearing the flag of an initialized geometry
init_reset(ctx) ==
    IF isInitialized THEN [Same EXCEPT !.isInitialized = FALSE] ELSE initBody(ctx)

\* init taking the context of a later call as the bound context
init_rebinds(ctx) ==
    IF isInitialized THEN [Same EXCEPT !.gl = ctx] ELSE initBody(ctx)

\* init(_gl): the outcome of the call in the current state
init(ctx) == IF isInitialized THEN Same ELSE initBody(ctx)

Apply(o) ==
    /\ result' = o.result
    /\ attributes' = o.attributes
    /\ index' = o.index
    /\ gl' = o.gl
    /\ isInitialized' = o.isInitialized
    /\ bufferCount' = o.bufferCount
    /\ calls' = o.calls
    /\ logs' = o.logs

Initialize(ctx) ==
    /\ GeometryCall("init", ctx, "-", "-")
    /\ Apply(init(ctx))
    /\ returned' = NoValue
    /\ UNCHANGED indexLate

\* lines 92-93 without the bindBuffer of line 92
indexedDraw_unbound(s) == << DrawElementsCall(s.gl, s.index.count) >>

\* lines 92-93: draw with the index buffer
indexedDraw(s) ==
    << BindBufferCall(s.gl, "ELEMENT_ARRAY_BUFFER", s.index.buffer),
       DrawElementsCall(s.gl, s.index.count) >>

\* draw(_gl), lines 82-104, on the state s that init left
drawBody(s) ==
    LET atts == s.attributes
        use == Flatten([i \in DOMAIN atts |->
                 useBuffer(s.gl, atts[i].buffer, atts[i].itemSize,
                           getAttribLocation(atts[i].name),
                           atts[i].normalize = Some(TRUE))])
        disable == Flatten([i \in DOMAIN atts |->
                 disableBuffer(s.gl, getAttribLocation(atts[i].name))])
        pos == {i \in DOMAIN atts : atts[i].name = "position"}
    IN  IF s.index.kind = "undefined" THEN
            [s EXCEPT !.result = "TypeError", !.calls = @ \o use]
        ELSE IF s.index.kind # "null" THEN
            [s EXCEPT !.calls = @ \o use \o indexedDraw(s) \o disable]
        ELSE IF pos = {} THEN
            [s EXCEPT !.result = "TypeError", !.calls = @ \o use]
        ELSE
            [s EXCEPT !.calls = @ \o use
                \o << DrawArraysCall(s.gl, atts[FirstOf(pos)].count) >>
                \o disable]

\* draw without the isInitialized test of lines 76-80
draw_unchecked(ctx) ==
    LET s == IF ctx # "null" THEN init(ctx) ELSE Same
    IN  IF s.result # "ok" THEN s ELSE drawBody(s)

\* draw(_gl)
draw(ctx) ==
    LET s == IF ctx # "null" THEN init(ctx) ELSE Same
    IN  IF s.result # "ok" THEN s
        ELSE IF ~s.isInitialized THEN
            [s EXCEPT !.result = "NotInitialized",
                      !.logs = @ \o <<Log("error", "not initialized", "-")>>]
        ELSE drawBody(s)

Draw(ctx) ==
    /\ GeometryCall("draw", ctx, "-", "-")
    /\ Apply(draw(ctx))
    /\ returned' = NoValue
    /\ UNCHANGED indexLate

\* a mutator that drops the bound context
Untouched_unbinds == gl' = "null" /\ UNCHANGED <<isInitialized, bufferCount>>

Untouched == UNCHANGED <<gl, isInitialized, bufferCount>>

\* setIndex(index)
SetIndex(x) ==
    /\ GeometryCall("setIndex", "-", "-", x.kind)
    /\ indexLate' = isInitialized
    /\ index' = IF isArrayOrTypedArray(x) \/ x.kind = "object"
                THEN [kind |-> "object", array |-> x.array,
                      buffer |-> UndefBuffer, count |-> Unset]
                ELSE IF x.kind = "null" THEN NullIndex ELSE UndefinedIndex
    /\ result' = "ok" /\ calls' = <<>> /\ logs' = <<>>
    /\ returned' = This
    /\ UNCHANGED attributes
    /\ Untouched

\* the entry setAttribute stores for a well-formed attribute object
Entry(name, a) ==
    [name |-> name, array |-> a.array[1], itemSize |-> a.itemSize[1],
     normalize |-> a.normalize, buffer |-> UndefBuffer, count |-> Unset]

\* this.attributes[name] = attribute: an existing key keeps its place in
\* the for-in order, a new key comes last
Put(name, e) ==
    IF name \in AttrNames
    THEN [attributes EXCEPT ![Position(name)] = e]
    ELSE Append(attributes, e)

\* setAttribute without the 'attribute === undefined' test of line 151:
\* reading itemSize of a missing attribute throws
setAttribute_noUndefinedTest(name, a) ==
    IF getAttribLocation(name) = -1 THEN
        [result |-> "InvalidAttributeName", attributes |-> attributes,
         logs |-> <<Log("error", "name not valid", name)>>]
    ELSE IF a.kind \in {"null", "undefined"} THEN
        [result |-> "TypeError", attributes |-> attributes, logs |-> <<>>]
    ELSE IF a.itemSize = Unset \/ a.array = Unset THEN
        [result |-> "MalformedAttributeData", attributes |-> attributes,
         logs |-> <<Log("error", "attribute data", name)>>]
    ELSE [result |-> "ok", attributes |-> Put(name, Entry(name, a)), logs |-> <<>>]

\* setAttribute(name, attribute): [result, attributes, logs]
setAttribute(name, a) ==
    IF getAttribLocation(name) = -1 THEN
        [result |-> "InvalidAttributeName", attributes |-> attributes,
         logs |-> <<Log("error", "name not valid", name)>>]
    ELSE IF a.kind = "null" THEN
        [result |-> "TypeError", attributes |-> attributes, logs |-> <<>>]
    ELSE IF a.kind = "undefined" \/ a.itemSize = Unset \/ a.array = Unset THEN
        [result |-> "MalformedAttributeData", attributes |-> attributes,
         logs |-> <<Log("error", "attribute data", name)>>]
    ELSE [result |-> "ok", attributes |-> Put(name, Entry(name, a)), logs |-> <<>>]

\* what the host passed as attribute, as far as setAttribute looks at it
Shape(a) ==
    CASE a.kind # "object" -> a.kind
      [] a.array = Unset /\ a.itemSize = Unset -> "neither"
      [] a.array = Unset -> "noArray"
      [] a.itemSize = Unset -> "noItemSize"
      [] OTHER -> "complete"

SetAttribute(name, a) ==
    /\ GeometryCall("setAttribute", "-", name, Shape(a))
    /\ LET o == setAttribute(name, a)
       IN  /\ result' = o.result
           /\ attributes' = o.attributes
           /\ logs' = o.logs
           /\ returned' = IF o.result = "ok" THEN This ELSE NoValue
    /\ calls' = <<>>
    /\ UNCHANGED <<index, indexLate>>
    /\ Untouched

\* delete this.attributes[name]
Remove(name) == SelectSeq(attributes, LAMBDA e : e.name # name)

DeleteAttribute(name) ==
    /\ GeometryCall("deleteAttribute", "-", name, "-")
    /\ attributes' = Remove(name)
    /\ result' = "ok" /\ calls' = <<>> /\ logs' = <<>>
    /\ returned' = This
    /\ UNCHANGED <<index, indexLate>>
    /\ Untouched

\* getAttribute(name): the stored entry, undefined when there is none
getAttribute(name) ==
    IF name \in AttrNames
    THEN Returns("attribute", attributes[Position(name)])
    ELSE NoValue

GetAttribute(name) ==
    /\ GeometryCall("getAttribute", "-", name, "-")
    /\ returned' = getAttribute(name)
    /\ result' = "ok" /\ calls' = <<>> /\ logs' = <<>>
    /\ UNCHANGED <<attributes, index, indexLate>>
    /\ Untouched

\* hasAttribute(name)
hasAttribute(name) == name \in AttrNames

HasAttribute(name) ==
    /\ GeometryCall("hasAttribute", "-", name, "-")
    /\ returned' = Returns("boolean", hasAttribute(name))
    /\ result' = "ok" /\ calls' = <<>> /\ logs' = <<>>
    /\ UNCHANGED <<attributes, index, indexLate>>
    /\ Untouched

NextGeometry ==
    \/ \E ctx \in GeometryContexts : Initialize(ctx)
    \/ \E ctx \in GeometryContexts : Draw(ctx)
    \/ \E x \in IndexInputs : SetIndex(x)
    \/ \E name \in HostNames, a \in AttributeInputs : SetAttribute(name, a)
    \/ \E name \in HostNames \cap ValidNames : DeleteAttribute(name)
    \/ \E name \in HostNames : GetAttribute(name)
    \/ \E name \in HostNames : HasAttribute(name)

Spec == Init /\ [][NextGeometry]_vars

\* ------------------------------------------------------------------------
\* A host that builds two geometries from the same attributes
\* ------------------------------------------------------------------------
\* the geometry object at hand, as its last operation left it
Stored ==
    [kind |-> "geometry", attributes |-> attributes, index |-> index, gl |-> gl,
     isInitialized |-> isInitialized, result |-> result, calls |-> calls]

\* the state a new BufferGeometry() starts in (constructor, lines 6-20);
\* the context keeps counting its buffers
Fresh ==
    /\ attributes' = <<>>
    /\ index' = NullIndex
    /\ gl' = "null"
    /\ isInitialized' = FALSE
    /\ indexLate' = FALSE
    /\ nops' = 0
    /\ op' = [name |-> "constructor", ctx |-> "-", key |-> "-", arg |-> "-", val |-> <<>>]
    /\ result' = "ok" /\ calls' = <<>> /\ logs' = <<>>
    /\ repeated' = FALSE
    /\ returned' = NoValue

\* the host has drawn its first geometry, keeps it and makes a second one
NewGeometry ==
    /\ other = NoGeometry
    /\ op.name = "draw"
    /\ other' = Stored
    /\ Fresh
    /\ UNCHANGED <<bufferCount, wvars, held, frames, pc>>

\* what identifies an attribute to the host: its name and its data
Named(atts) == {<<atts[i].name, atts[i].array, atts[i].itemSize>> : i \in DOMAIN atts}

CompleteObjects == {a \in AttributeObjects : a.array # Unset /\ a.itemSize # Unset}

\* the host adds an attribute the geometry does not have yet; to the second
\* geometry it adds attributes of the first, in any order
OrderedSet(name, a) ==
    /\ op.name \in {"constructor", "setAttribute"}
    /\ name \notin AttrNames
    /\ other # NoGeometry
          => <<name, a.array[1], a.itemSize[1]>> \in Named(other.attributes)
    /\ SetAttribute(name, a)

\* the host draws the geometry once it holds its attributes
OrderedDraw ==
    /\ op.name = "setAttribute"
    /\ Draw("glA")

NextOrder ==
    \/ \E name \in HostNames \cap ValidNames, a \in CompleteObjects : OrderedSet(name, a)
    \/ OrderedDraw
    \/ NewGeometry

SpecOrder == Init /\ [][NextOrder]_vars

\* ------------------------------------------------------------------------
\* A host with two graphics contexts
\* ------------------------------------------------------------------------
\* the host passes either of its contexts, or none, and gives the geometry
\* well-formed position / color data and a six-entry index list
NextContexts ==
    \/ \E ctx \in RealContexts : Initialize(ctx)
    \/ \E ctx \in RealContexts \cup {"null"} : Draw(ctx)
    \/ SetIndex([kind |-> "array", array |-> Some(6)])
    \/ \E name \in {"position", "color"}, a \in CompleteObjects : SetAttribute(name, a)

SpecContexts == Init /\ [][NextContexts]_vars

\* ------------------------------------------------------------------------
\* ShaderHelper.js
\* ------------------------------------------------------------------------
COMPILE_STATUS == 35713
LINK_STATUS == 35714

\* contexts whose bindings reject null where an object is required by
\* throwing a TypeError; the others record an error and carry on
StrictContexts == {"glA"}

defaultShaderType(ndx) ==
    CASE ndx = 0 -> "VERTEX_SHADER"
      [] ndx = 1 -> "FRAGMENT_SHADER"
      [] OTHER -> "undefined"

ShaderCall(fn, ctx, h) == [fn |-> fn, ctx |-> ctx, shader |-> h]
ProgramCall(fn, ctx, p) == [fn |-> fn, ctx |-> ctx, program |-> p]

\* loadShader without the deleteShader of line 33
loadShader_noDelete(ctx, type, compiled, h) ==
    LET common == << [fn |-> "createShader", ctx |-> ctx, type |-> type, shader |-> h],
                     ShaderCall("shaderSource", ctx, h),
                     ShaderCall("compileShader", ctx, h),
                     [fn |-> "getShaderParameter", ctx |-> ctx, shader |-> h,
                      pname |-> COMPILE_STATUS] >>
    IN  IF compiled
        THEN [shader |-> h, calls |-> common, logs |-> <<>>]
        ELSE [shader |-> NullBuffer,
              calls |-> common \o << ShaderCall("getShaderInfoLog", ctx, h) >>,
              logs |-> <<Log("error", "compiling shader", type)>>]

\* loadShader(gl, shaderSource, shaderType): h is the shader object the
\* context creates, compiled the status the context reports
loadShader(ctx, type, compiled, h) ==
    LET common == << [fn |-> "createShader", ctx |-> ctx, type |-> type, shader |-> h],
                     ShaderCall("shaderSource", ctx, h),
                     ShaderCall("compileShader", ctx, h),
                     [fn |-> "getShaderParameter", ctx |-> ctx, shader |-> h,
                      pname |-> COMPILE_STATUS] >>
    IN  IF compiled
        THEN [shader |-> h, calls |-> common, logs |-> <<>>]
        ELSE [shader |-> NullBuffer,
              calls |-> common \o << ShaderCall("getShaderInfoLog", ctx, h),
                                     ShaderCall("deleteShader", ctx, h) >>,
              logs |-> <<Log("error", "compiling shader", type)>>]

\* deleteShaders(gl, shaders)
deleteShaders(ctx, shaders) ==
    [i \in DOMAIN shaders |-> ShaderCall("deleteShader", ctx, shaders[i])]

\* an element of the shaders array is a source string or a shader handle
SourceString == [ctx |-> "string", id |-> 0]
isString(shader) == shader.ctx = "string"

\* lines 66-76 of createProgram: the strings among shaders are compiled in
\* order; compiled[i] is the status the context reports for shaders[i]
RECURSIVE Loaded(_, _, _, _, _)
Loaded(ctx, shaders, compiled, ndx, made) ==
    IF ndx > Len(shaders) THEN <<>>
    ELSE IF ~isString(shaders[ndx])
         THEN Loaded(ctx, shaders, compiled, ndx + 1, made)
         ELSE << loadShader(ctx, defaultShaderType(ndx - 1), compiled[ndx],
                            Handle(ctx, made + 1)) >>
              \o Loaded(ctx, shaders, compiled, ndx + 1, made + 1)

\* the attachShader calls of lines 79-81, up to the first one that throws
RECURSIVE Attached(_, _, _)
Attached(ctx, p, shaders) ==
    IF shaders = <<>> THEN <<>>
    ELSE << [fn |-> "attachShader", ctx |-> ctx, program |-> p, shader |-> Head(shaders)] >>
         \o IF Head(shaders) = NullBuffer /\ ctx \in StrictContexts
            THEN <<>>
            ELSE Attached(ctx, p, Tail(shaders))

\* createProgram(gl, shaders): linkOk is the link status the context
\* reports when every stage it was given compiled
createProgram(ctx, shaders, compiled, linkOk) ==
    LET loaded == Loaded(ctx, shaders, compiled, 1, shaderCount)
        realShaders == [i \in DOMAIN loaded |-> loaded[i].shader]
        p == Handle(ctx, programCount + 1)
        throws == ctx \in StrictContexts
                    /\ \E i \in DOMAIN realShaders : realShaders[i] = NullBuffer
        linked == linkOk /\ Len(realShaders) = 2
                    /\ \A i \in DOMAIN realShaders : realShaders[i] # NullBuffer
        before == Flatten([i \in DOMAIN loaded |-> loaded[i].calls])
                    \o << ProgramCall("createProgram", ctx, p) >>
                    \o Attached(ctx, p, realShaders)
        link == << ProgramCall("linkProgram", ctx, p),
                   [fn |-> "getProgramParameter", ctx |-> ctx, program |-> p,
                    pname |-> LINK_STATUS] >>
        compileLogs == Flatten([i \in DOMAIN loaded |-> loaded[i].logs])
        base == [result |-> "ok", program |-> p, calls |-> before \o link,
                 logs |-> compileLogs, linked |-> linked,
                 shaderCount |-> shaderCount + Len(loaded),
                 programCount |-> programCount + 1]
    IN  IF throws THEN
            [base EXCEPT !.result = "TypeError", !.program = NullBuffer,
                         !.calls = before]
        ELSE IF ~linked THEN
            [base EXCEPT
                !.program = NullBuffer,
                !.calls = @ \o << ProgramCall("getProgramInfoLog", ctx, p),
                                  ProgramCall("deleteProgram", ctx, p) >>
                            \o deleteShaders(ctx, realShaders),
                !.logs = @ \o <<Log("error", "program linking", "-")>>]
        ELSE base

\* a host calling the two exported helpers itself
HelperCall(name, ctx, key, arg, val) ==
    /\ nops < MaxHelperOps
    /\ Called(name, ctx, key, arg, val)
    /\ UNCHANGED <<gvars, hvars, constructed, wgl, program, uniforms>>

\* loadShader(gl, shaderSource, gl[type], type)
LoadShader(ctx, type, compiled) ==
    /\ HelperCall("loadShader", ctx, type,
                  IF compiled THEN "compiles" ELSE "fails", <<>>)
    /\ LET o == loadShader(ctx, type, compiled, Handle(ctx, shaderCount + 1))
       IN  /\ calls' = o.calls
           /\ logs' = o.logs
           /\ returned' = Returns("shader", o.shader)
           /\ held' = IF o.shader = NullBuffer THEN held ELSE held \cup {o.shader}
    /\ result' = "ok"
    /\ shaderCount' = shaderCount + 1
    /\ UNCHANGED programCount

\* the arrays a host passes as shaders: up to two elements (the default
\* ordering names two stages), each a source string or a handle it holds
StageLists ==
    LET e == {SourceString} \cup held
    IN  {<<>>} \cup {<<a>> : a \in e} \cup {<<a, b>> : a \in e, b \in e}

\* the link status createProgram read at line 85, if it got that far
LinkStatus(o) ==
    IF o.result # "ok" THEN "-" ELSE IF o.linked THEN "linked" ELSE "notLinked"

\* createProgram(gl, shaders)
CreateProgram(ctx, shaders, compiled, linkOk) ==
    /\ HelperCall("createProgram", ctx, "-",
                  LinkStatus(createProgram(ctx, shaders, compiled, linkOk)),
                  shaders)
    /\ LET o == createProgram(ctx, shaders, compiled, linkOk)
       IN  /\ result' = o.result
           /\ calls' = o.calls
           /\ logs' = o.logs
           /\ shaderCount' = o.shaderCount
           /\ programCount' = o.programCount
           /\ returned' = IF o.result = "ok"
                          THEN Returns("program", o.program) ELSE NoValue
    /\ UNCHANGED held

NextHelper ==
    \/ \E ctx \in RealContexts, type \in {"VERTEX_SHADER", "FRAGMENT_SHADER"},
          compiled \in BOOLEAN : LoadShader(ctx, type, compiled)
    \/ \E ctx \in RealContexts, shaders \in StageLists,
          compiled \in [1..2 -> BOOLEAN], linkOk \in BOOLEAN :
          CreateProgram(ctx, shaders, compiled, linkOk)

SpecHelper == Init /\ [][NextHelper]_vars

\* ------------------------------------------------------------------------
\* Properties of ShaderHelper
\* ------------------------------------------------------------------------
\* the positions in calls of the calls of function fn
CallsOf(fn) == {k \in DOMAIN calls : calls[k].fn = fn}

\* the positions in calls where shader object h is released
Releases(h) == {k \in CallsOf("deleteShader") : calls[k].shader = h}

\* C13: loadShader on a source that fails to compile returns null and
\* deletes the shader object it created exactly once; on a source that
\* compiles it returns the shader object it created and deletes nothing.
C13_CompileStage ==
    op.name = "loadShader" =>
        /\ result = "ok"
        /\ Cardinality(CallsOf("createShader")) = 1
        /\ LET created == calls[1].shader
           IN  /\ calls[1].fn = "createShader"
               /\ created # NullBuffer
               /\ op.arg = "fails" =>
                     /\ returned = Returns("shader", NullBuffer)
                     /\ Cardinality(Releases(created)) = 1
                     /\ Cardinality(CallsOf("deleteShader")) = 1
                     /\ created \notin held
               /\ op.arg = "compiles" =>
                     /\ returned = Returns("shader", created)
                     /\ CallsOf("deleteShader") = {}
                     /\ created \in held

C13_Witness ==
    /\ op.name = "loadShader" /\ op.arg = "fails"
    /\ returned = Returns("shader", NullBuffer)
    /\ Releases(Handle(op.ctx, shaderCount)) # {}
    /\ held # {}

\* the shader objects of the last createProgram: the handles the host
\* passed, the objects created from source, and those that compiled
Precompiled == {op.val[i] : i \in {j \in DOMAIN op.val : ~isString(op.val[j])}}
Created == {calls[k].shader : k \in CallsOf("createShader")}
FailedToCompile == {calls[k].shader : k \in CallsOf("getShaderInfoLog")}
AttachedShaders == {calls[k].shader : k \in CallsOf("attachShader")}

\* C14: createProgram attaches to the new program exactly the stages that
\* are there to attach, all of them before it links: every shader handle
\* passed in shaders and every shader compiled from a source string; null
\* (the result of a failed compilation) is never passed to attachShader.
C14_AttachesCompiledStages ==
    op.name = "createProgram" =>
        /\ AttachedShaders = Precompiled \cup (Created \ FailedToCompile)
        /\ NullBuffer \notin AttachedShaders
        /\ CallsOf("linkProgram") # {}
        /\ \A k \in CallsOf("attachShader"), m \in CallsOf("linkProgram") : k < m

\* the positions in calls where program object p is released
ProgramReleases(p) == {k \in CallsOf("deleteProgram") : calls[k].program = p}

\* C15: when the link status read by createProgram is false, it deletes
\* the program object once, deletes once every shader object of the call
\* (created from source or passed in as a handle) and returns null without
\* throwing; when the status is true it returns the program object and
\* deletes nothing.
C15_LinkFailureReleases ==
    op.name = "createProgram" =>
        LET p == Handle(op.ctx, programCount)
        IN  /\ op.arg = "notLinked" =>
                  /\ result = "ok"
                  /\ returned = Returns("program", NullBuffer)
                  /\ Cardinality(ProgramReleases(p)) = 1
                  /\ Cardinality(CallsOf("deleteProgram")) = 1
                  /\ \A h \in Precompiled \cup Created : Cardinality(Releases(h)) = 1
            /\ op.arg = "linked" =>
                  /\ result = "ok"
                  /\ returned = Returns("program", p)
                  /\ CallsOf("deleteProgram") = {}
                  /\ CallsOf("deleteShader") = {}

\* ------------------------------------------------------------------------
\* WebGLProgram.js
\* ------------------------------------------------------------------------
WrapperCall(name, ctx, key, arg, val) ==
    /\ nops < MaxWrapperOps
    /\ Called(name, ctx, key, arg, val)
    /\ returned' = NoValue
    /\ UNCHANGED <<gvars, hvars, held>>

\* new WebGLProgram(gl); table is what the context makes of the shader
\* pair's uniforms when it links
construct(ctx, compiled, linkOk, table) ==
    /\ IF ctx \notin RealContexts THEN
          /\ result' = IF ctx = "null" THEN "TypeError" ELSE "InvalidContext"
          /\ logs' = IF ctx = "null" THEN <<>>
                     ELSE <<Log("error", "context not valid", "-")>>
          /\ calls' = <<>>
          /\ UNCHANGED wvars
       ELSE LET o == createProgram(ctx, <<SourceString, SourceString>>, compiled, linkOk)
            IN  /\ result' = o.result
                /\ logs' = o.logs
                /\ calls' = o.calls
                /\ shaderCount' = o.shaderCount
                /\ programCount' = o.programCount
                /\ IF o.result = "ok"
                   THEN /\ constructed' = TRUE
                        /\ wgl' = ctx
                        /\ program' = o.program
                        /\ uniforms' = IF o.program = NullBuffer
                                       THEN [n \in UniformNames |-> "inactive"]
                                       ELSE table
                   ELSE UNCHANGED <<constructed, wgl, program, uniforms>>

Construct(ctx, compiled, linkOk, table) ==
    /\ WrapperCall("new WebGLProgram", ctx, "-", "-", <<>>)
    /\ construct(ctx, compiled, linkOk, table)

\* use()
use ==
    /\ calls' = << ProgramCall("useProgram", wgl, program) >>
    /\ result' = "ok" /\ logs' = <<>>
    /\ UNCHANGED wvars

Use ==
    /\ constructed
    /\ WrapperCall("use", "-", "-", "-", <<>>)
    /\ use

\* the values a host passes to setUniform, by runtime shape; val holds the
\* numeric components (r,g,b / x,y,z,w / elements / the array itself)
Iota(n) == [i \in 1..n |-> i]
UniformValues ==
    {[shape |-> "number", val |-> <<5>>],
     [shape |-> "true", val |-> <<>>],
     [shape |-> "false", val |-> <<>>],
     [shape |-> "color", val |-> <<7, 8, 9>>],
     [shape |-> "matrix4", val |-> Iota(16)],
     [shape |-> "matrix3", val |-> Iota(9)],
     [shape |-> "vector3", val |-> <<4, 5, 6>>],
     [shape |-> "vector4", val |-> <<4, 5, 6, 7>>],
     [shape |-> "object", val |-> <<>>],
     [shape |-> "string", val |-> <<>>],
     [shape |-> "null", val |-> <<>>],
     [shape |-> "undefined", val |-> <<>>]}
    \cup {[shape |-> "array", val |-> Iota(n)] : n \in 0..MaxArray}

\* the uniform setters a WebGL context has
UniformSetters ==
    {"uniform1f", "uniform2f", "uniform3f", "uniform4f",
     "uniform1fv", "uniform2fv", "uniform3fv", "uniform4fv",
     "uniformMatrix3fv", "uniformMatrix4fv"}

\* .length of what gl.getUniform returns for a uniform of the given type:
\* a number for a float, a Float32Array for vectors and matrices
LengthOf(type) ==
    CASE type = "float" -> "undefined"
      [] type = "vec3" -> "3"
      [] type = "vec4" -> "4"
      [] type = "mat4" -> "16"

UniformCall(fn, ctx, loc, args) ==
    [fn |-> fn, ctx |-> ctx, location |-> loc, args |-> args]
MatrixCall(fn, ctx, loc, elements) ==
    [fn |-> fn, ctx |-> ctx, location |-> loc, transpose |-> FALSE, args |-> elements]

\* gl[uniformCall](...) making the call twice
Dispatch_twice(fn, call) ==
    IF fn \in UniformSetters
    THEN [result |-> "ok", calls |-> <<call, call>>, logs |-> <<>>]
    ELSE [result |-> "TypeError", calls |-> <<>>, logs |-> <<>>]

\* gl[uniformCall](...): a TypeError when the context has no such function
Dispatch(fn, call) ==
    IF fn \in UniformSetters
    THEN [result |-> "ok", calls |-> <<call>>, logs |-> <<>>]
    ELSE [result |-> "TypeError", calls |-> <<>>, logs |-> <<>>]

\* lines 100-122 of setUniform, for a uniform found at loc
setValue(ctx, loc, uniformLength, value) ==
    LET v == value.val
    IN  CASE value.shape = "number" ->
               Dispatch("uniform1f", UniformCall("uniform1f", ctx, loc, v))
          [] value.shape = "true" ->
               Dispatch("uniform1f", UniformCall("uniform1f", ctx, loc, <<1>>))
          [] value.shape = "false" ->
               Dispatch("uniform1f", UniformCall("uniform1f", ctx, loc, <<0>>))
          [] value.shape = "array" ->
               LET fn == "uniform" \o ToString(Len(v)) \o "fv"
               IN  Dispatch(fn, UniformCall(fn, ctx, loc, v))
          [] value.shape \in {"null", "undefined"} ->
               [result |-> "TypeError", calls |-> <<>>, logs |-> <<>>]
          [] value.shape = "color" ->
               LET fn == "uniform" \o uniformLength \o "f"
               IN  Dispatch(fn, UniformCall(fn, ctx, loc, <<v[1], v[2], v[3], 1>>))
          [] value.shape = "matrix4" ->
               Dispatch("uniformMatrix4fv", MatrixCall("uniformMatrix4fv", ctx, loc, v))
          [] value.shape = "matrix3" ->
               Dispatch("uniformMatrix3fv", MatrixCall("uniformMatrix3fv", ctx, loc, v))
          [] value.shape = "vector3" ->
               Dispatch("uniform3f", UniformCall("uniform3f", ctx, loc, v))
          [] value.shape = "vector4" ->
               Dispatch("uniform4f", UniformCall("uniform4f", ctx, loc, v))
          [] OTHER ->
               [result |-> "ok", calls |-> <<>>,
                logs |-> <<Log("warn", "value not supported", value.shape)>>]

\* the location gl.getUniformLocation returns; "null" when the program
\* has no active uniform of that name
Location(name) ==
    IF name \in UniformNames /\ uniforms[name] # "inactive" THEN name ELSE "null"

\* setUniform without the return of line 93: it warns and goes on
setUniform_noReturn(name, value) ==
    LET locCall == [fn |-> "getUniformLocation", ctx |-> wgl,
                    program |-> program, name |-> name]
        loc == IF program = NullBuffer THEN "null" ELSE Location(name)
        typeCall == [fn |-> "getUniform", ctx |-> wgl, program |-> program,
                     location |-> loc]
        len == IF loc = "null" THEN "undefined" ELSE LengthOf(uniforms[loc])
        set == setValue(wgl, loc, len, value)
    IN  IF program = NullBuffer /\ wgl \in StrictContexts THEN
            [result |-> "TypeError", calls |-> <<locCall>>, logs |-> <<>>]
        ELSE [set EXCEPT
                !.calls = <<locCall, typeCall>> \o @,
                !.logs = IF loc = "null"
                         THEN <<Log("warn", "uniform not found", name)>> \o @
                         ELSE @]

\* setUniform(name, value)
setUniform(name, value) ==
    LET locCall == [fn |-> "getUniformLocation", ctx |-> wgl,
                    program |-> program, name |-> name]
        loc == IF program = NullBuffer THEN "null" ELSE Location(name)
        typeCall == [fn |-> "getUniform", ctx |-> wgl, program |-> program,
                     location |-> loc]
        set == setValue(wgl, loc, LengthOf(uniforms[loc]), value)
    IN  IF program = NullBuffer /\ wgl \in StrictContexts THEN
            [result |-> "TypeError", calls |-> <<locCall>>, logs |-> <<>>]
        ELSE IF loc = "null" THEN
            [result |-> "ok", calls |-> <<locCall>>,
             logs |-> <<Log("warn", "uniform not found", name)>>]
        ELSE [set EXCEPT !.calls = <<locCall, typeCall>> \o @]

SetUniform(name, value) ==
    /\ constructed
    /\ WrapperCall("setUniform", "-", name, value.shape, value.val)
    /\ LET o == setUniform(name, value)
       IN  /\ result' = o.result
           /\ calls' = o.calls
           /\ logs' = o.logs
    /\ UNCHANGED wvars

\* what the context can answer during a construction: the compile status
\* of the two stages, the link status, and the uniforms of a linked program
AllTrue == [i \in 1..2 |-> TRUE]
Inactive == [n \in UniformNames |-> "inactive"]
Answers(ctx) ==
    IF ctx \notin RealContexts
    THEN {[compiled |-> AllTrue, linkOk |-> TRUE, table |-> Inactive]}
    ELSE [compiled : {AllTrue}, linkOk : {TRUE}, table : UniformTables]
         \cup {a \in [compiled : [1..2 -> BOOLEAN], linkOk : BOOLEAN, table : {Inactive}] :
                  ~(a.linkOk /\ a.compiled = AllTrue)}

NextProgram ==
    \/ \E ctx \in Contexts : \E a \in Answers(ctx) :
          Construct(ctx, a.compiled, a.linkOk, a.table)
    \/ Use
    \/ \E name \in UniformNames \cup {"missing"}, value \in UniformValues :
          SetUniform(name, value)

SpecProgram == Init /\ [][NextProgram]_vars

\* ------------------------------------------------------------------------
\* The host webgl-01.js: main() and its drawScene()
\* ------------------------------------------------------------------------
MaxFrames == 2       \* drawScene calls in one run

\* the context canvas.getContext("webgl2") gave main
HostContext == "glA"

\* an attribute object {array, itemSize} of main, by its array length
Data(len, size) ==
    [kind |-> "object", array |-> Some(len), itemSize |-> Some(size), normalize |-> Unset]

\* what the controls hold for the two uniforms drawScene sets
ControlsMatrix == CHOOSE v \in UniformValues : v.shape = "matrix4"
ControlsColor == CHOOSE v \in UniformValues : v.shape = "color"

\* an exception leaves drawScene; thrown in the call of line 348 it also
\* leaves main, before the GUI that triggers the redraws exists
Thrown(frame) == IF frame = 1 THEN "done" ELSE "idle"

\* main up to line 291: the triangle (the geometry drawScene draws next),
\* the indexed quad, and a program linked from the host's shader pair
HostMain(compiled, linkOk) ==
    /\ pc = "main"
    /\ Called("main", HostContext, "-", "-", <<>>)
    /\ attributes' = << Entry("position", Data(9, 3)), Entry("color", Data(12, 4)) >>
    /\ other' = [kind |-> "geometry",
                 attributes |-> << Entry("position", Data(12, 3)),
                                   Entry("color", Data(16, 4)) >>,
                 index |-> [kind |-> "object", array |-> Some(6),
                            buffer |-> UndefBuffer, count |-> Unset],
                 gl |-> "null", isInitialized |-> FALSE,
                 result |-> "ok", calls |-> <<>>]
    /\ LET o == createProgram(HostContext, <<SourceString, SourceString>>, compiled, linkOk)
       IN  /\ result' = o.result
           /\ calls' = o.calls
           /\ logs' = o.logs
           /\ shaderCount' = o.shaderCount
           /\ programCount' = o.programCount
           /\ returned' = IF o.result = "ok" THEN Returns("program", o.program) ELSE NoValue
           /\ pc' = IF o.result = "ok" THEN "idle" ELSE "done"
    /\ UNCHANGED <<index, gl, isInitialized, bufferCount, indexLate,
                   constructed, wgl, program, uniforms, held, frames>>

\* drawScene, lines 298-310, called by main or by a change of the controls:
\* viewport and clear
FrameClear ==
    /\ pc = "idle"
    /\ frames < MaxFrames
    /\ frames' = frames + 1
    /\ Called("drawScene", HostContext, "-", "-", <<>>)
    /\ calls' = << [fn |-> "viewport", ctx |-> HostContext],
                   [fn |-> "clearColor", ctx |-> HostContext],
                   [fn |-> "clear", ctx |-> HostContext] >>
    /\ result' = "ok" /\ logs' = <<>>
    /\ pc' = "construct"
    /\ returned' = NoValue
    /\ UNCHANGED <<gvars, wvars, other, held>>

\* line 329: const program = new WebGLProgram(gl)
FrameConstruct(compiled, linkOk, table) ==
    /\ pc = "construct"
    /\ Called("new WebGLProgram", HostContext, "-", "-", <<>>)
    /\ construct(HostContext, compiled, linkOk, table)
    /\ pc' = IF result' = "ok" THEN "use" ELSE Thrown(frames)
    /\ returned' = NoValue
    /\ UNCHANGED <<gvars, other, frames, held>>

\* line 331: program.use()
FrameUse ==
    /\ pc = "use"
    /\ Called("use", "-", "-", "-", <<>>)
    /\ use
    /\ pc' = "modelMatrix"
    /\ returned' = NoValue
    /\ UNCHANGED <<gvars, other, frames, held>>

\* lines 332-333: program.setUniform(name, value)
FrameUniform(name, value, next) ==
    /\ pc = name
    /\ Called("setUniform", "-", name, value.shape, value.val)
    /\ LET o == setUniform(name, value)
       IN  /\ result' = o.result
           /\ calls' = o.calls
           /\ logs' = o.logs
           /\ pc' = IF o.result = "ok" THEN next ELSE Thrown(frames)
    /\ returned' = NoValue
    /\ UNCHANGED <<gvars, wvars, other, frames, held>>

\* lines 335-336: geometry.draw(gl) on the geometry that is next; the host
\* then turns to its other geometry
FrameDraw(which, next) ==
    /\ pc = which
    /\ Called("draw", HostContext, "-", "-", <<>>)
    /\ LET o == draw(HostContext)
       IN  /\ result' = o.result
           /\ calls' = o.calls
           /\ logs' = o.logs
           /\ bufferCount' = o.bufferCount
           /\ other' = [kind |-> "geometry", attributes |-> o.attributes,
                        index |-> o.index, gl |-> o.gl,
                        isInitialized |-> o.isInitialized,
                        result |-> o.result, calls |-> o.calls]
           /\ pc' = IF o.result = "ok" THEN next ELSE Thrown(frames)
    /\ attributes' = other.attributes
    /\ index' = other.index
    /\ gl' = other.gl
    /\ isInitialized' = other.isInitialized
    /\ returned' = NoValue
    /\ UNCHANGED <<indexLate, wvars, frames, held>>

NextHost ==
    \/ \E a \in Answers(HostContext) : HostMain(a.compiled, a.linkOk)
    \/ FrameClear
    \/ \E a \in Answers(HostContext) : FrameConstruct(a.compiled, a.linkOk, a.table)
    \/ FrameUse
    \/ FrameUniform("modelMatrix", ControlsMatrix, "color")
    \/ FrameUniform("color", ControlsColor, "triangle")
    \/ FrameDraw("triangle", "quad")
    \/ FrameDraw("quad", "idle")

SpecHost == Init /\ [][NextHost]_vars

\* ------------------------------------------------------------------------
\* Properties of WebGLProgram
\* ------------------------------------------------------------------------
SetterCalls == SelectSeq(calls, LAMBDA c : c.fn \in UniformSetters)

\* C9: setUniform for a name that has no location in the linked program
\* writes one warning, returns normally and makes no uniform-set call
\* (its only graphics call is the location query), whatever the value.
C9_UniformNotFound ==
    (op.name = "setUniform" /\ program # NullBuffer /\ Location(op.key) = "null")
      => /\ result = "ok"
         /\ logs = <<Log("warn", "uniform not found", op.key)>>
         /\ SetterCalls = <<>>
         /\ \A k \in DOMAIN calls : calls[k].fn = "getUniformLocation"

C9_Witness ==
    /\ op.name = "setUniform" /\ op.key = "color" /\ op.arg = "color"
    /\ program # NullBuffer /\ uniforms["color"] = "inactive"
    /\ uniforms["modelMatrix"] = "mat4"
    /\ result = "ok"

\* number of components a uniform of the given type declares
Components(type) ==
    CASE type = "float" -> 1
      [] type = "vec3" -> 3
      [] type = "vec4" -> 4
      [] type = "mat4" -> 16

\* C10: setUniform with a found uniform and a color value {r,g,b} issues
\* one float-vector call whose arity is the uniform's declared component
\* count; for a 3-component uniform it carries r, g, b and nothing else,
\* for a 4-component uniform r, g, b and alpha 1.0.
C10_ColorByArity ==
    (op.name = "setUniform" /\ op.arg = "color" /\ program # NullBuffer
        /\ Location(op.key) # "null")
      => LET n == Components(uniforms[op.key])
         IN  /\ result = "ok"
             /\ Len(SetterCalls) = 1
             /\ SetterCalls[1].fn = "uniform" \o ToString(n) \o "f"
             /\ n = 3 => SetterCalls[1].args = op.val
             /\ n = 4 => SetterCalls[1].args = op.val \o <<1>>

\* the uniform of the last setUniform was found in a linked program
Found == program # NullBuffer /\ Location(op.key) # "null"

\* the float-vector setter of each arity
VectorSetter(n) ==
    CASE n = 1 -> "uniform1fv"
      [] n = 2 -> "uniform2fv"
      [] n = 3 -> "uniform3fv"
      [] n = 4 -> "uniform4fv"

\* the uniform-set call the dispatch table names for the value passed
TableCall ==
    CASE op.arg = "number" -> UniformCall("uniform1f", wgl, op.key, op.val)
      [] op.arg = "true" -> UniformCall("uniform1f", wgl, op.key, <<1>>)
      [] op.arg = "false" -> UniformCall("uniform1f", wgl, op.key, <<0>>)
      [] op.arg = "array" ->
           UniformCall(VectorSetter(Len(op.val)), wgl, op.key, op.val)
      [] op.arg = "matrix4" -> MatrixCall("uniformMatrix4fv", wgl, op.key, op.val)
      [] op.arg = "matrix3" -> MatrixCall("uniformMatrix3fv", wgl, op.key, op.val)
      [] op.arg = "vector3" -> UniformCall("uniform3f", wgl, op.key, op.val)
      [] op.arg = "vector4" -> UniformCall("uniform4f", wgl, op.key, op.val)

Supported ==
    \/ op.arg \in {"number", "true", "false", "color", "matrix4", "matrix3",
                   "vector3", "vector4"}
    \/ op.arg = "array" /\ Len(op.val) \in 1..4

\* C12: setUniform with a found uniform and a value of any other shape (an
\* array of length 0 or more than 4, an absent or null value, a string, an
\* untagged object) writes a warning, makes no uniform-set call and
\* returns normally.
C12_UnsupportedWarns ==
    (op.name = "setUniform" /\ Found /\ ~Supported)
      => /\ result = "ok"
         /\ SetterCalls = <<>>
         /\ Len(logs) = 1 /\ logs[1].level = "warn"

\* ------------------------------------------------------------------------
\* Properties of BufferGeometry
\* ------------------------------------------------------------------------
GeometryState == <<attributes, index, gl, isInitialized, bufferCount>>

DrawCalls == SelectSeq(calls, LAMBDA c : c.fn \in {"drawArrays", "drawElements"})

\* the element count of an attribute: length of data divided by itemSize
ElementCount(e) == Quotient(e.array, e.itemSize)

Inconsistent ==
    /\ Len(attributes) >= 2
    /\ \E i, j \in DOMAIN attributes :
          ElementCount(attributes[i]) # ElementCount(attributes[j])

\* C1 (as stated): for any geometry and any context, an init(context) that
\* directly follows an init(context) creates no buffer, uploads no data,
\* raises no error and leaves the geometry as it was.
C1_AnyContextIdempotent ==
    [][ (op.name = "init" /\ op'.name = "init" /\ op'.ctx = op.ctx)
          => (result' = "ok" /\ calls' = <<>> /\ UNCHANGED GeometryState) ]_vars

\* C1 (amended): when init(context) returned normally, an init(context)
\* that directly follows it makes no graphics call (no buffer, no upload),
\* logs nothing, raises no error and leaves the geometry as it was.
C1_IdempotentAfterSuccess ==
    [][ (op.name = "init" /\ result = "ok" /\ op'.name = "init" /\ op'.ctx = op.ctx)
          => (result' = "ok" /\ calls' = <<>> /\ logs' = <<>>
              /\ UNCHANGED GeometryState) ]_vars

C1_Witness ==
    /\ op.name = "init" /\ repeated
    /\ isInitialized /\ gl = op.ctx
    /\ result = "ok" /\ calls = <<>>
    /\ attributes # <<>> /\ index.kind = "object" /\ ~indexLate

\* C2: on a geometry holding two or more attributes whose element counts
\* are not all equal, init(context) with a real context fails with
\* InconsistentAttributeCount and draw(context) issues no draw call.
C2_InconsistentRejected ==
    (Inconsistent /\ op.ctx \in RealContexts)
      => /\ op.name = "init" => result = "InconsistentAttributeCount"
         /\ op.name = "draw" => DrawCalls = <<>>

\* C3: an initialized geometry has a recorded count on every attribute in
\* its map, and all those counts are equal.
C3_InitializedCountsEqual ==
    isInitialized =>
        /\ \A i \in DOMAIN attributes : attributes[i].count # Unset
        /\ \A i, j \in DOMAIN attributes : attributes[i].count = attributes[j].count

\* C4: draw without a context on a geometry that is not initialized fails
\* with NotInitialized and makes no graphics-context call.
C4_DrawNotInitialized ==
    [][ (~isInitialized /\ op'.name = "draw" /\ op'.ctx = "null")
          => (result' = "NotInitialized" /\ calls' = <<>>
              /\ UNCHANGED GeometryState) ]_vars

C4_Witness ==
    /\ op.name = "draw" /\ op.ctx = "null"
    /\ result = "NotInitialized" /\ calls = <<>>
    /\ attributes # <<>> /\ bufferCount["glA"] > 0

\* C5: setAttribute with a name outside {position, color, normal, uv} fails
\* with InvalidAttributeName whatever the attribute value, and leaves the
\* attribute map, the index and the initialized flag unchanged.
C5_InvalidNameRejected ==
    [][ (op'.name = "setAttribute" /\ op'.key \notin ValidNames)
          => (result' = "InvalidAttributeName"
              /\ UNCHANGED <<attributes, index, isInitialized>>) ]_vars

C5_Witness ==
    /\ op.name = "setAttribute" /\ op.key = "index" /\ op.arg = "complete"
    /\ result = "InvalidAttributeName"
    /\ attributes # <<>>

C7_NonIndexedDraw ==
    (op.name = "draw" /\ isInitialized /\ "position" \in AttrNames
        /\ index.kind = "null")
      => DrawCalls =
           << DrawArraysCall(gl, Some(ElementCount(attributes[Position("position")]))) >>

\* C8: every draw on an initialized geometry whose index list was set
\* before initialization binds the element buffer created by init and
\* issues exactly one drawElements(TRIANGLES, length of the index list,
\* UNSIGNED_SHORT, 0), and no drawArrays.
C8_IndexedDraw ==
    (op.name = "draw" /\ isInitialized /\ index.kind = "object" /\ ~indexLate)
      => /\ index.buffer.ctx = gl
         /\ index.buffer.id \in 1..bufferCount[gl]
         /\ \A i \in DOMAIN attributes : attributes[i].buffer # index.buffer
         /\ DrawCalls = << DrawElementsCall(gl, Some(index.array[1])) >>
         /\ \E k \in DOMAIN calls :
              /\ calls[k] = BindBufferCall(gl, "ELEMENT_ARRAY_BUFFER", index.buffer)
              /\ k + 1 \in DOMAIN calls
              /\ calls[k + 1].fn = "drawElements"

C8_Witness ==
    /\ op.name = "draw" /\ isInitialized /\ index.kind = "object" /\ ~indexLate
    /\ index.array = Some(6)
    /\ Len(calls) > 2
    /\ "position" \in AttrNames
    /\ result = "ok"

\* C16: init(context) on a geometry that is not initialized fails with
\* InvalidContext when the context is no graphics context (absent
\* included) and passes the validation when it is one; after InvalidContext
\* no buffer was created and the geometry is still uninitialized, with no
\* bound context.
C16_ContextValidated ==
    [][ (~isInitialized /\ op'.name = "init")
          => /\ op'.ctx \notin RealContexts =>
                  /\ result' = "InvalidContext"
                  /\ calls' = <<>>
                  /\ ~isInitialized' /\ gl' = gl /\ bufferCount' = bufferCount
             /\ op'.ctx \in RealContexts =>
                  /\ result' # "InvalidContext"
                  /\ gl' = op'.ctx ]_vars

\* C17: a geometry starts uninitialized; it becomes initialized only in
\* an init(context) or a draw(context) with a context, which is then its
\* bound context; and no operation makes an initialized geometry
\* uninitialized again.
C17_SingleTransition ==
    /\ ~isInitialized
    /\ [][ /\ isInitialized => isInitialized'
           /\ (~isInitialized /\ isInitialized')
                 => /\ op'.name \in {"init", "draw"}
                    /\ op'.ctx \in RealContexts
                    /\ gl' = op'.ctx ]_vars

C17_Witness ==
    /\ isInitialized /\ indexLate
    /\ op.name = "deleteAttribute" /\ op.key \notin AttrNames
    /\ attributes # <<>>

\* C18: setAttribute, setIndex, hasAttribute, getAttribute and
\* deleteAttribute make no graphics-context call and leave the initialized
\* flag and the bound context as they were, before and after
\* initialization; a buffer is created only by init(context) or
\* draw(context) with a graphics context.
C18_NoGraphicsCalls ==
    [][ /\ op'.name \in {"setAttribute", "setIndex", "hasAttribute",
                         "getAttribute", "deleteAttribute"}
             => (calls' = <<>> /\ UNCHANGED <<isInitialized, gl, bufferCount>>)
        /\ (\/ bufferCount' # bufferCount
            \/ \E k \in DOMAIN calls' : calls'[k].fn = "createBuffer")
             => (op'.name \in {"init", "draw"} /\ op'.ctx \in RealContexts) ]_vars

C18_Witness ==
    /\ op.name = "getAttribute" /\ isInitialized /\ gl = "glA"
    /\ returned.kind = "attribute" /\ returned.value.buffer = Handle("glA", 1)
    /\ calls = <<>>

\* C19 (as stated): an init that fails with InconsistentAttributeCount
\* leaves the geometry marked initialized, so an init that follows it is
\* a silent no-op and a draw() without context that follows it does not
\* fail with NotInitialized.
C19_MarkedInitialized ==
    [][ /\ (op'.name = "init" /\ result' = "InconsistentAttributeCount")
             => isInitialized'
        /\ (op.name = "init" /\ result = "InconsistentAttributeCount"
                /\ op'.name = "init")
             => (result' = "ok" /\ calls' = <<>> /\ logs' = <<>>)
        /\ (op.name = "init" /\ result = "InconsistentAttributeCount"
                /\ op'.name = "draw" /\ op'.ctx = "null")
             => result' # "NotInitialized" ]_vars

\* C19 (amended): an init that fails with InconsistentAttributeCount has
\* bound the context and created a buffer for every attribute but leaves
\* the geometry uninitialized: an init(context) that follows it uploads
\* and fails again, and a draw() without context that follows it fails
\* with NotInitialized.
C19_LeftUninitialized ==
    [][ /\ (op'.name = "init" /\ result' = "InconsistentAttributeCount")
             => /\ ~isInitialized'
                /\ gl' = op'.ctx
                /\ bufferCount'[gl'] = bufferCount[gl'] + Len(attributes)
        /\ (op.name = "init" /\ result = "InconsistentAttributeCount"
                /\ op'.name = "init" /\ op'.ctx \in RealContexts)
             => /\ result' = "InconsistentAttributeCount"
                /\ \E k \in DOMAIN calls' : calls'[k].fn = "createBuffer"
        /\ (op.name = "init" /\ result = "InconsistentAttributeCount"
                /\ op'.name = "draw" /\ op'.ctx = "null")
             => (result' = "NotInitialized" /\ calls' = <<>>) ]_vars

C19_Witness ==
    /\ op.name = "init" /\ repeated
    /\ result = "InconsistentAttributeCount"
    /\ ~isInitialized /\ gl = "glA"
    /\ Len(attributes) = 2 /\ bufferCount["glA"] = 4

\* C20: in every draw that returns normally there is one draw call; before
\* it, for each attribute, the attribute's buffer is bound, the slot of its
\* location is enabled and pointed at it; every slot enabled is disabled
\* after the draw call, and nothing is disabled before it.
C20_EnabledThenDisabled ==
    (op.name = "draw" /\ result = "ok") =>
        LET D == CallsOf("drawArrays") \cup CallsOf("drawElements")
            d == CHOOSE k \in D : TRUE
            E == CallsOf("enableVertexAttribArray")
            X == CallsOf("disableVertexAttribArray")
        IN  /\ Cardinality(D) = 1
            /\ \A i \in DOMAIN attributes :
                  LET loc == getAttribLocation(attributes[i].name)
                  IN  \E k \in 1..(d - 3) :
                        /\ calls[k] = BindBufferCall(gl, "ARRAY_BUFFER", attributes[i].buffer)
                        /\ calls[k + 1] = EnableCall(gl, loc)
                        /\ calls[k + 2].fn = "vertexAttribPointer"
                        /\ calls[k + 2].location = loc
            /\ \A k \in E :
                  /\ k < d
                  /\ \E m \in X : m > d /\ calls[m] = DisableCall(gl, calls[k].location)
            /\ \A m \in X : m > d

C20_Witness ==
    /\ op.name = "draw" /\ result = "ok"
    /\ Len(attributes) = 2 /\ "position" \in AttrNames
    /\ index.kind = "null"
    /\ Cardinality(CallsOf("disableVertexAttribArray")) = 2
    /\ CallsOf("drawArrays") # {}

\* the positions in calls of the bindBuffer calls on ARRAY_BUFFER
ArrayBinds == {k \in CallsOf("bindBuffer") : calls[k].target = "ARRAY_BUFFER"}
LastOf(S) == CHOOSE k \in S : \A m \in S : m <= k

\* C21 (as stated): during a draw no call binds 'no buffer' (null) to
\* ARRAY_BUFFER, and after a draw that went through its attributes the
\* last buffer bound to ARRAY_BUFFER is the buffer of the last attribute.
C21_NeverUnbinds ==
    op.name = "draw" =>
        /\ \A k \in ArrayBinds : calls[k].buffer # NullBuffer
        /\ (isInitialized /\ attributes # <<>>) =>
              /\ ArrayBinds # {}
              /\ calls[LastOf(ArrayBinds)].buffer = attributes[Len(attributes)].buffer

\* C21 (amended): a draw that goes through its attributes binds 'no
\* buffer' (null) to ARRAY_BUFFER right after every vertexAttribPointer
\* call, once per attribute, so after the draw ARRAY_BUFFER holds no buffer.
C21_UnbindsEachAttribute ==
    op.name = "draw" =>
        LET P == CallsOf("vertexAttribPointer")
        IN  /\ \A k \in P :
                  /\ k + 1 \in DOMAIN calls
                  /\ calls[k + 1] = BindBufferCall(gl, "ARRAY_BUFFER", NullBuffer)
            /\ isInitialized => Cardinality(P) = Len(attributes)
            /\ P # {} => calls[LastOf(ArrayBinds)].buffer = NullBuffer

C21_Witness ==
    /\ op.name = "draw" /\ result = "ok"
    /\ Len(attributes) = 2
    /\ Cardinality({k \in ArrayBinds : calls[k].buffer = NullBuffer}) = 2
    /\ CallsOf("drawArrays") # {}

\* the attribute a vertex-input slot reads from when the draw call is made:
\* the one whose buffer was bound at the last vertexAttribPointer for the
\* slot, and the item size given there
SlotSource(cs, atts, loc) ==
    LET P == {k \in DOMAIN cs : cs[k].fn = "vertexAttribPointer" /\ cs[k].location = loc}
    IN  IF P = {} THEN [name |-> "none", size |-> 0]
        ELSE LET k == LastOf(P)
                 i == CHOOSE j \in DOMAIN atts : atts[j].buffer = cs[k - 2].buffer
             IN  [name |-> atts[i].name, size |-> cs[k].size]

\* C22: two geometries that hold the same named attributes, added in
\* whatever order, end their first draw(context) the same way (the same
\* initialization outcome), and when the draw call is made every
\* vertex-input slot reads from the same attribute with the same item size
\* in both.
C22_OrderIrrelevant ==
    (/\ other # NoGeometry /\ op.name = "draw"
     /\ Named(attributes) = Named(other.attributes))
      => /\ result = other.result
         /\ result = "ok" =>
               \A loc \in {0, 1, 2} :
                 SlotSource(calls, attributes, loc)
                   = SlotSource(other.calls, other.attributes, loc)

\* C23: a ProgramWrapper that was constructed without error holds a linked
\* program (never the null handle), and no call that use() or setUniform
\* makes on the context carries the null handle as its program, whatever
\* the context answered to compiling and linking during the construction.
C23_RetainsLinkedProgram ==
    /\ constructed => program # NullBuffer
    /\ op.name \in {"use", "setUniform"}
          => \A k \in DOMAIN calls :
               calls[k].fn \in {"useProgram", "getUniformLocation", "getUniform"}
                 => calls[k].program # NullBuffer

\* C24: the host links one program and keeps using it: however many times
\* drawScene runs, no more than one program object was ever created, and
\* from the second frame on no operation creates a program or a buffer.
C24_OneProgramReused ==
    /\ programCount <= 1
    /\ frames > 1 => CallsOf("createProgram") = {} /\ CallsOf("createBuffer") = {}

\* C25: a draw on a geometry that is initialized, whatever attributes and
\* index it holds, returns normally after exactly one draw call, and every
\* vertex-input slot it enabled was disabled again after that draw call.
C25_DrawCompletes ==
    (op.name = "draw" /\ isInitialized)
      => /\ result = "ok"
         /\ Len(DrawCalls) = 1
         /\ \A k \in CallsOf("enableVertexAttribArray") :
               \E m \in CallsOf("disableVertexAttribArray") :
                 m > k /\ calls[m].location = calls[k].location

\* C26: every buffer a draw binds for an attribute or for the index is a
\* handle the bound context created for this geometry (never an undefined
\* one), and the count of an indexed draw call is never undefined, also
\* when setAttribute or setIndex was called after the initialization.
C26_BindsCreatedHandles ==
    op.name = "draw"
      => /\ \A k \in CallsOf("bindBuffer") :
               calls[k].buffer # NullBuffer
                 => /\ calls[k].buffer.ctx = gl
                    /\ calls[k].buffer.id \in 1..bufferCount[gl]
         /\ \A k \in CallsOf("drawElements") : calls[k].count # Unset

\* C27: once the geometry is initialized with a context, that context
\* stays the bound one: every call a later init or draw makes goes to it
\* whatever context the host passes, and no other context gets a call or
\* creates a buffer.
C27_ContextFixed ==
    [][ isInitialized
          => /\ gl' = gl
             /\ \A k \in DOMAIN calls' : calls'[k].ctx = gl
             /\ \A c \in RealContexts \ {gl} : bufferCount'[c] = bufferCount[c] ]_vars

C27_Witness ==
    /\ op.name = "draw" /\ op.ctx = "glB" /\ result = "ok"
    /\ isInitialized /\ gl = "glA"
    /\ bufferCount["glB"] = 0
    /\ CallsOf("drawArrays") # {}
    /\ \A k \in DOMAIN calls : calls[k].ctx = "glA"

====
